---- MODULE Spec2Model ----
(***************************************************************************)
(* School dashboard (src/school_dashboard/app.py): the assessment store    *)
(* (SQLite table `assessments`), the POST/GET /assess handlers, the        *)
(* calendar helpers and the GET / handler with its external NEIS calls.    *)
(*                                                                         *)
(* Representation.                                                         *)
(*  - An optional value (Python None / SQL NULL, or a value v) is a        *)
(*    sequence of length 0 or 1: None == <<>>, Some(v) == <<v>>.           *)
(*  - due_date text is the sequence of its bytes ("9" is <<57>>, "10" is   *)
(*    <<49, 48>>); the other text fields are opaque strings.               *)
(*  - A text that is split or parsed (DDISH_NM, PERIO) is the sequence of  *)
(*    its Unicode code points: "10" is <<49, 48>>, "\t1" is <<9, 49>>.      *)
(*  - A raised exception is the method resolution order of its class, as   *)
(*    the sequence of the class names; no exception is <<>>.               *)
(*  - A calendar date is its proleptic Gregorian ordinal                   *)
(*    (date.toordinal()); a time of day is its number of seconds since     *)
(*    midnight (microseconds are not modelled).                            *)
(***************************************************************************)
EXTENDS Integers, Sequences, FiniteSets, TLC

\* ---------------------------------------------------------------- bounds
MaxReqs    == 2        \* concurrent /assess requests
MaxRecords == 3        \* rows the table may grow to
MaxTicks   == 1        \* midnight crossings of the clock in one behaviour
FirstDay   == 739248   \* first calendar day of the window: 2024-12-28 (Sat)
NumDays    == 60       \* days of the window get_week_dates is checked on
IndexDays  == 2        \* days of the window GET / requests start on
MaxPre     == 2        \* rows data.db may hold when the process starts

VARIABLES
    now,            \* the wall clock now_kst(): [day, tod]
    ticks,          \* midnight crossings so far (bounds the clock)
    \* --- assessment store and /assess requests
    table,          \* rows of `assessments` in rowid order
    seq,            \* sqlite_sequence value of the AUTOINCREMENT key
    lock,           \* request whose connection holds the write lock, or 0
    pc,             \* per request: position in the /assess handler
    form,           \* per request: request.form.get of the four fields
    pending,        \* per request: row written but not yet committed
    exc,            \* per request: exception that ended the request
    listing,        \* per request: rows of its last get_assessments()
    supplied,       \* history: arguments of every committed add_assessment,
                    \* those of earlier runs of the process included
    \* --- GET / request
    ipc,            \* position in index()
    today,          \* index(): today = now_kst()
    meal_list,      \* index(): get_today_meal()
    timetable,      \* index(): get_today_timetable()
    curr_next,      \* index(): get_current_and_next_period()
    week_days,      \* get_week_meals()/get_week_timetable(): week_days
    week_meals,     \* result list of get_week_meals()
    week_timetable, \* result list of get_week_timetable()
    inflight,       \* external calls started and not yet returned
    outcome,        \* what the coroutine of the last call ended with
    calls,          \* history: external calls in the order they were started
    iexc            \* exception that reached the HTTP layer, or NoException

storeVars == <<table, seq, lock, pc, form, pending, exc, listing, supplied>>
indexVars == <<ipc, today, meal_list, timetable, curr_next, week_days,
               week_meals, week_timetable, inflight, outcome, calls,
               iexc>>
vars == <<now, ticks, storeVars, indexVars>>

\* ------------------------------------------------------- optional values
None == <<>>
Some(v) == <<v>>

Range(s) == {s[i] : i \in DOMAIN s}

\* no exception raised (a raised exception is the MRO of its class)
NoException == <<>>

\* ------------------------------------------------------------------ clock
SecondsPerDay == 24 * 60 * 60

\* time(h, m) as seconds since midnight
time(h, m) == h * 3600 + m * 60

\* variant: weeks counted from Sunday
weekdaySundayFirst(d) == d % 7

\* date.weekday(): Monday is 0, Sunday is 6 (ordinal 1 was a Monday)
weekday(d) == (d + 6) % 7

DaysBeforeMonth == <<0, 31, 59, 90, 120, 151, 181, 212, 243, 273, 304, 334>>

\* datetime's ordinal -> <<year, month, day>>, as the standard library
\* splits an ordinal into 400-, 100-, 4- and 1-year cycles
ord2ymd(ordinal) ==
    LET n0   == ordinal - 1
        n400 == n0 \div 146097
        r400 == n0 % 146097
        n100 == r400 \div 36524
        r100 == r400 % 36524
        n4   == r100 \div 1461
        r4   == r100 % 1461
        n1   == r4 \div 365
        n    == r4 % 365
        year == n400 * 400 + 1 + n100 * 100 + n4 * 4 + n1
        leap == n1 = 3 /\ (n4 # 24 \/ n100 = 3)
        est  == (n + 50) \div 32
        pre(m) == DaysBeforeMonth[m] + (IF m > 2 /\ leap THEN 1 ELSE 0)
        month == IF pre(est) > n THEN est - 1 ELSE est
    IN  IF n1 = 4 \/ n100 = 4
        THEN <<year - 1, 12, 31>>
        ELSE <<year, month, n - pre(month) + 1>>

\* d.strftime("%Y-%m-%d"): the three printed fields
strftime_dashed(d) == ord2ymd(d)

\* d.strftime("%Y%m%d"), read as a number
strftime_ymd(d) ==
    LET ymd == ord2ymd(d) IN ymd[1] * 10000 + ymd[2] * 100 + ymd[3]

\* now_kst().isoformat(): date fields, then hour, minute, second
isoformat(t) ==
    ord2ymd(t.day) \o <<t.tod \div 3600, (t.tod % 3600) \div 60, t.tod % 60>>

\* the seven weekday labels, romanised
weekday_kor == <<"wol", "hwa", "su", "mok", "geum", "to", "il">>

\* time of day the store's requests are served at
TodSamples == {time(8, 45)}

\* The clock crosses midnight while the GET / request is being served.
Tick ==
    /\ ticks < MaxTicks
    /\ ipc \notin {"idle", "rendered", "http_error"}
    /\ now' = [day |-> now.day + 1, tod |-> 0]
    /\ ticks' = ticks + 1
    /\ UNCHANGED <<storeVars, indexVars>>

\* ------------------------------------------------------ assessment store
Reqs == 1..MaxReqs

\* request.form.get of the four fields; None is a field the form lacks
Form(subject, title, due_date, detail) ==
    [subject |-> subject, title |-> title, due_date |-> due_date,
     detail |-> detail]

\* the forms submitted: complete ones due "9" and "10", one without due_date
\* and detail, one without subject, one without title
Forms == {
    Form(Some("math"), Some("quiz"), Some(<<57>>), Some("ch1")),
    Form(Some("math"), Some("quiz"), Some(<<49, 48>>), Some("ch1")),
    Form(Some("math"), Some("quiz"), None, None),
    Form(None, Some("quiz"), Some(<<57>>), Some("ch1")),
    Form(Some("math"), None, None, Some("ch1")) }

NoForm == Form(None, None, None, None)

\* memcmp-style comparison of two byte strings: -1, 0 or 1
RECURSIVE memcmp(_, _)
memcmp(a, b) ==
    IF a = <<>> /\ b = <<>> THEN 0
    ELSE IF a = <<>> THEN -1
    ELSE IF b = <<>> THEN 1
    ELSE IF Head(a) < Head(b) THEN -1
    ELSE IF Head(a) > Head(b) THEN 1
    ELSE memcmp(Tail(a), Tail(b))

\* variant: shorter texts first, as numbers of equal width would compare
OrderByLeqShortFirst(x, y) ==
    IF x = None THEN TRUE
    ELSE IF y = None THEN FALSE
    ELSE IF Len(x[1]) # Len(y[1]) THEN Len(x[1]) < Len(y[1])
    ELSE memcmp(x[1], y[1]) <= 0

\* ORDER BY due_date on a TEXT column: NULL sorts before every text, texts
\* compare bytewise (BINARY collation)
OrderByLeq(x, y) ==
    IF x = None THEN TRUE
    ELSE IF y = None THEN FALSE
    ELSE memcmp(x[1], y[1]) <= 0

\* one step of the sorter: r goes after every row that does not sort after it
InsertRow(sorted, r) ==
    LET before == {i \in DOMAIN sorted : OrderByLeq(sorted[i].due_date, r.due_date)}
        k == IF before = {} THEN 0
             ELSE CHOOSE i \in before : \A j \in before : j <= i
    IN  SubSeq(sorted, 1, k) \o <<r>> \o SubSeq(sorted, k + 1, Len(sorted))

RECURSIVE SortRows(_)
SortRows(rows) ==
    IF rows = <<>> THEN <<>>
    ELSE InsertRow(SortRows(SubSeq(rows, 1, Len(rows) - 1)), rows[Len(rows)])

\* get_assessments(): SELECT ... FROM assessments ORDER BY due_date
get_assessments == SortRows(table)

\* NOT NULL columns of CREATE TABLE
NotNullColumns == {"subject", "title"}

\* variant: columns declared without NOT NULL
ViolatesNotNullNever(f) == FALSE

\* the INSERT violates a NOT NULL constraint
ViolatesNotNull(f) == \E c \in NotNullColumns : f[c] = None

\* AUTOINCREMENT: one more than the largest rowid ever used
MaxRowid == IF table = <<>> THEN 0
            ELSE CHOOSE m \in {table[i].id : i \in DOMAIN table} :
                    \A i \in DOMAIN table : table[i].id <= m
NextRowid == (IF seq > MaxRowid THEN seq ELSE MaxRowid) + 1

\* variant: subject and title bound to each other's column
InsertedRowSwapped(f, t) ==
    [id |-> NextRowid, subject |-> f.title, title |-> f.subject,
     due_date |-> f.due_date, detail |-> f.detail,
     created_at |-> Some(isoformat(t))]

\* the row the INSERT of add_assessment writes
InsertedRow(f, t) ==
    [id |-> NextRowid, subject |-> f.subject, title |-> f.title,
     due_date |-> f.due_date, detail |-> f.detail,
     created_at |-> Some(isoformat(t))]

\* variant: writers not serialised
CanWriteUnlocked(r) == TRUE

\* SQLite grants the write lock to one connection at a time
CanWrite(r) == lock = 0

InProgress == Cardinality({r \in Reqs : pc[r] \in {"execute", "commit"}})

\* POST /assess arrives: assess() reads the form and calls add_assessment,
\* which opens a connection.
PostAssess(r) ==
    /\ pc[r] = "idle"
    /\ Len(table) + InProgress < MaxRecords
    /\ \E f \in Forms : form' = [form EXCEPT ![r] = f]
    /\ pc' = [pc EXCEPT ![r] = "execute"]
    /\ exc' = [exc EXCEPT ![r] = "none"]
    /\ UNCHANGED <<now, ticks, table, seq, lock, pending, listing, supplied,
                   indexVars>>

\* c.execute(INSERT ...): takes the write lock, then checks the constraints.
\* A constraint failure raises IntegrityError with the transaction, and so
\* the lock, still open on the abandoned connection.
ExecuteInsert(r) ==
    /\ pc[r] = "execute"
    /\ CanWrite(r)
    /\ lock' = r
    /\ IF ViolatesNotNull(form[r])
       THEN /\ pc' = [pc EXCEPT ![r] = "failed"]
            /\ exc' = [exc EXCEPT ![r] = "IntegrityError"]
            /\ UNCHANGED pending
       ELSE /\ pc' = [pc EXCEPT ![r] = "commit"]
            /\ pending' = [pending EXCEPT ![r] = Some(InsertedRow(form[r], now))]
            /\ UNCHANGED exc
    /\ UNCHANGED <<now, ticks, table, seq, form, listing, supplied, indexVars>>

\* c.execute(INSERT ...) while another connection holds the write lock: the
\* busy timeout of sqlite3.connect expires and OperationalError is raised.
ExecuteBusy(r) ==
    /\ pc[r] = "execute"
    /\ lock \notin {0, r}
    /\ pc' = [pc EXCEPT ![r] = "failed"]
    /\ exc' = [exc EXCEPT ![r] = "OperationalError"]
    /\ UNCHANGED <<now, ticks, table, seq, lock, form, pending, listing,
                   supplied, indexVars>>

\* conn.commit(); conn.close(); return redirect(url_for("assess"))
CommitInsert(r) ==
    /\ pc[r] = "commit"
    /\ table' = Append(table, pending[r][1])
    /\ seq' = pending[r][1].id
    /\ supplied' = Append(supplied, form[r])
    /\ pending' = [pending EXCEPT ![r] = None]
    /\ lock' = 0
    /\ pc' = [pc EXCEPT ![r] = "redirect"]
    /\ UNCHANGED <<now, ticks, form, exc, listing, indexVars>>

\* The response is sent and the request's locals are released; a connection
\* abandoned by an exception is finalised, which rolls its transaction back.
Respond(r) ==
    /\ pc[r] \in {"redirect", "failed", "listed"}
    /\ pc' = [pc EXCEPT ![r] = "idle"]
    /\ lock' = IF lock = r THEN 0 ELSE lock
    /\ form' = [form EXCEPT ![r] = NoForm]
    /\ exc' = [exc EXCEPT ![r] = "none"]
    /\ listing' = [listing EXCEPT ![r] = <<>>]
    /\ UNCHANGED <<now, ticks, table, seq, pending, supplied, indexVars>>

\* GET /assess (and GET /api/assess): asses = get_assessments()
GetAssess(r) ==
    /\ pc[r] = "idle"
    /\ listing' = [listing EXCEPT ![r] = get_assessments]
    /\ pc' = [pc EXCEPT ![r] = "listed"]
    /\ UNCHANGED <<now, ticks, table, seq, lock, form, pending, exc,
                   supplied, indexVars>>

\* the forms the table accepts
StorableForms == {f \in Forms : ~ViolatesNotNull(f)}

\* a row left in data.db by an earlier run of the process
EarlierRow(id, f) ==
    [id |-> id, subject |-> f.subject, title |-> f.title,
     due_date |-> f.due_date, detail |-> f.detail,
     created_at |-> Some(isoformat([day |-> FirstDay - 1, tod |-> time(8, 45)]))]

\* the contents data.db can have when the process starts: no file yet, or
\* the rows 1..k of earlier runs
EarlierTables ==
    UNION {{[i \in 1..k |-> EarlierRow(i, fs[i])] : fs \in [1..k -> StorableForms]} :
           k \in 0..MaxPre}

\* init_db(): CREATE TABLE IF NOT EXISTS keeps the rows and the key sequence
\* of an existing data.db; the sequence is the largest id ever used, which is
\* above the largest id present when the newest row has been removed from
\* the file by hand.
StoreInit ==
    /\ table \in EarlierTables
    /\ seq \in {Len(table), Len(table) + 1}
    /\ lock = 0
    /\ pc = [r \in Reqs |-> "idle"]
    /\ form = [r \in Reqs |-> NoForm]
    /\ pending = [r \in Reqs |-> None]
    /\ exc = [r \in Reqs |-> "none"]
    /\ listing = [r \in Reqs |-> <<>>]
    /\ supplied = [i \in DOMAIN table |->
                      Form(table[i].subject, table[i].title,
                           table[i].due_date, table[i].detail)]

\* the store of a process that only serves GET /
StoreUnused ==
    /\ table = <<>>
    /\ seq = 0
    /\ lock = 0
    /\ pc = [r \in Reqs |-> "idle"]
    /\ form = [r \in Reqs |-> NoForm]
    /\ pending = [r \in Reqs |-> None]
    /\ exc = [r \in Reqs |-> "none"]
    /\ listing = [r \in Reqs |-> <<>>]
    /\ supplied = <<>>

IndexIdle ==
    /\ ipc = "idle"
    /\ today = None
    /\ meal_list = <<>>
    /\ timetable = <<>>
    /\ curr_next = None
    /\ week_days = <<>>
    /\ week_meals = <<>>
    /\ week_timetable = <<>>
    /\ inflight = {}
    /\ outcome = None
    /\ calls = <<>>
    /\ iexc = NoException

\* The store under concurrent /assess requests.
InitStore ==
    /\ now \in [day : {FirstDay}, tod : TodSamples]
    /\ ticks = 0
    /\ StoreInit
    /\ IndexIdle

NextStore ==
    \/ \E r \in Reqs : PostAssess(r)
    \/ \E r \in Reqs : ExecuteInsert(r)
    \/ \E r \in Reqs : ExecuteBusy(r)
    \/ \E r \in Reqs : CommitInsert(r)
    \/ \E r \in Reqs : Respond(r)
    \/ \E r \in Reqs : GetAssess(r)

SpecStore == InitStore /\ [][NextStore]_vars

\* ------------------------------------------------------ calendar helpers
\* get_week_dates(): Monday to Friday of the week of today
get_week_dates(t) ==
    LET monday == t.day - weekday(t.day)
    IN  [i \in 1..5 |-> monday + (i - 1)]

PERIOD_TIMES == <<
    <<1, time(8, 40), time(9, 30)>>,
    <<2, time(9, 40), time(10, 30)>>,
    <<3, time(10, 40), time(11, 30)>>,
    <<4, time(11, 40), time(12, 30)>>,
    <<5, time(13, 30), time(14, 20)>>,
    <<6, time(14, 30), time(15, 20)>>,
    <<7, time(15, 30), time(16, 20)>> >>

\* variant: window without its last instant
InWindowHalfOpen(t, start, end) == start <= t /\ t < end

\* the window test of the loop body: start <= now <= end
InWindow(t, start, end) == start <= t /\ t <= end

\* the for loop of get_current_and_next_period from table index idx on
RECURSIVE PeriodLoop(_, _)
PeriodLoop(t, idx) ==
    IF idx > Len(PERIOD_TIMES) THEN <<None, None>>
    ELSE LET p     == PERIOD_TIMES[idx][1]
             start == PERIOD_TIMES[idx][2]
             end   == PERIOD_TIMES[idx][3]
         IN  IF InWindow(t, start, end)
             THEN <<Some(p),
                    IF idx + 1 <= Len(PERIOD_TIMES)
                    THEN Some(PERIOD_TIMES[idx + 1][1]) ELSE None>>
             ELSE IF t < start THEN <<None, Some(p)>>
             ELSE PeriodLoop(t, idx + 1)

\* get_current_and_next_period() at time of day t: <<current, next_p>>
get_current_and_next_period(t) == PeriodLoop(t, 1)

\* ----------------------------------------------------- external service
\* What one NEIS call can come back with: a transport failure, a payload
\* without the expected structure, or a payload with its list of rows.
BR == <<60, 98, 114, 47, 62>>           \* "<br/>"

\* the characters str.strip() removes (str.isspace)
Whitespace ==
    (9..13) \cup (28..32) \cup {133, 160, 5760} \cup (8192..8202)
        \cup {8232, 8233, 8239, 8287, 12288}

\* the characters int() skips around the number: the same, except that the
\* ASCII separators 28..31 are not blanks for int()
IntWhitespace == Whitespace \ (28..31)

\* the code point of the digit zero of every decimal digit script
\* (ASCII, Arabic-Indic, Devanagari, fullwidth, ...)
DigitZeros ==
    {48, 1632, 1776, 1984, 2406, 2534, 2662, 2790, 2918, 3046, 3174, 3302,
     3430, 3558, 3664, 3792, 3872, 4160, 4240, 6112, 6160, 6470, 6608, 6784,
     6800, 6992, 7088, 7232, 7248, 42528, 43216, 43264, 43472, 43504, 43600,
     44016, 65296, 66720, 68912, 69734, 69872, 69942, 70096, 70384, 70736,
     70864, 71248, 71360, 71472, 71904, 72016, 72784, 73040, 73120, 92768,
     92864, 93008, 120782, 120792, 120802, 120812, 120822, 123200, 123632,
     125264, 130032}

\* sys.get_int_max_str_digits()
int_max_str_digits == 4300

\* sample texts
rice   == <<114, 105, 99, 101>>
soup   == <<115, 111, 117, 112>>
kimchi == <<107, 105, 109, 99, 104, 105>>

\* type(e).__mro__ of the exceptions a call can end with, by class name
ClientConnectorError ==
    <<"ClientConnectorError", "ClientOSError", "ClientConnectionError",
      "ClientError", "OSError", "Exception", "BaseException", "object">>
DataNotFound == <<"DataNotFound", "Exception", "BaseException", "object">>
TimeoutError ==
    <<"TimeoutError", "OSError", "Exception", "BaseException", "object">>
IndexError ==
    <<"IndexError", "LookupError", "Exception", "BaseException", "object">>
ValueError == <<"ValueError", "Exception", "BaseException", "object">>

MealResponses == {
    [kind |-> "raise", exc |-> ClientConnectorError],
    [kind |-> "raise", exc |-> DataNotFound],
    [kind |-> "raise", exc |-> TimeoutError],
    [kind |-> "malformed"],
    [kind |-> "rows", rows |-> <<>>],
    [kind |-> "rows",       \* "rice\t<br/> soup<br/>kimchi\r\n"
     rows |-> <<[DDISH_NM |-> rice \o <<9>> \o BR \o <<32>> \o soup \o BR
                                \o kimchi \o <<13, 10>>]>>] }

TimetableResponses == {
    [kind |-> "raise", exc |-> ClientConnectorError],
    [kind |-> "raise", exc |-> DataNotFound],
    [kind |-> "raise", exc |-> TimeoutError],
    [kind |-> "malformed"],
    [kind |-> "rows", rows |-> <<>>],
    [kind |-> "rows", rows |-> <<[PERIO |-> <<120>>, ITRT_CNTNT |-> "math"]>>],
    [kind |-> "rows",       \* "10", "\t2", "\xa0" + ARABIC-INDIC ONE + "\n"
     rows |-> <<[PERIO |-> <<49, 48>>, ITRT_CNTNT |-> "math"],
                [PERIO |-> <<9, 50>>, ITRT_CNTNT |-> "english"],
                [PERIO |-> <<160, 1633, 10>>, ITRT_CNTNT |-> "korean"]>>] }

\* issubclass(type(e), base), e given by the MRO of its class
issubclass(e, base) == \E i \in DOMAIN e : e[i] = base

\* variant: only transport errors caught
ExceptExceptionNetworkOnly(e) == issubclass(e, "ClientError")

\* except Exception as e: ...
ExceptException(e) == issubclass(e, "Exception")

\* what a coroutine ends with: a returned value or a raised exception
Returned(v) == [raised |-> NoException, value |-> v]
Raised(e)   == [raised |-> e, value |-> <<>>]

\* s[:len(prefix)] == prefix
StartsWith(s, prefix) ==
    Len(s) >= Len(prefix) /\ SubSeq(s, 1, Len(prefix)) = prefix

\* the pieces of raw between the occurrences of sep, found left to right;
\* piece is the part of the current piece already scanned
RECURSIVE SplitFrom(_, _, _)
SplitFrom(raw, sep, piece) ==
    IF raw = <<>> THEN <<piece>>
    ELSE IF StartsWith(raw, sep)
         THEN <<piece>> \o SplitFrom(SubSeq(raw, Len(sep) + 1, Len(raw)),
                                     sep, <<>>)
    ELSE SplitFrom(Tail(raw), sep, Append(piece, Head(raw)))

\* raw.split(sep)
split(raw, sep) == SplitFrom(raw, sep, <<>>)

\* d without its leading and trailing characters of the set chars
RECURSIVE StripChars(_, _)
StripChars(d, chars) ==
    IF d = <<>> THEN d
    ELSE IF Head(d) \in chars THEN StripChars(Tail(d), chars)
    ELSE IF d[Len(d)] \in chars
         THEN StripChars(SubSeq(d, 1, Len(d) - 1), chars)
    ELSE d

\* d.strip(): without its leading and trailing whitespace
strip(d) == StripChars(d, Whitespace)

\* _async_meal_for_ymd on the response resp
async_meal_for_ymd(resp) ==
    IF resp.kind = "raise" THEN Raised(resp.exc)
    ELSE IF resp.kind = "malformed" THEN Raised(IndexError)
    ELSE IF resp.rows = <<>> THEN Returned(<<>>)
    ELSE LET pieces == split(resp.rows[1].DDISH_NM, BR)
         IN  Returned([i \in DOMAIN pieces |-> strip(pieces[i])])

\* c is a decimal digit of some script
IsDigit(c) == \E z \in DigitZeros : c \in z..(z + 9)

\* the value of the decimal digit c
DigitValue(c) == c - (CHOOSE z \in DigitZeros : c \in z..(z + 9))

\* the text without its sign ("+" or "-")
Unsigned(s) == IF s # <<>> /\ Head(s) \in {43, 45} THEN Tail(s) ELSE s

\* digits, with single underscores allowed between them
IsDigits(s) ==
    /\ s # <<>>
    /\ \A i \in DOMAIN s : IsDigit(s[i]) \/ s[i] = 95
    /\ s[1] # 95 /\ s[Len(s)] # 95
    /\ \A i \in 1..(Len(s) - 1) : ~(s[i] = 95 /\ s[i + 1] = 95)
    /\ Cardinality({i \in DOMAIN s : IsDigit(s[i])}) <= int_max_str_digits

\* int(s) does not raise ValueError: optional blanks, optional sign, digits
IsInt(s) == IsDigits(Unsigned(StripChars(s, IntWhitespace)))

RECURSIVE DigitsValue(_, _)
DigitsValue(s, acc) ==
    IF s = <<>> THEN acc
    ELSE IF Head(s) = 95 THEN DigitsValue(Tail(s), acc)
    ELSE DigitsValue(Tail(s), acc * 10 + DigitValue(Head(s)))

\* int(s) for a text s: the number, or ValueError
int(s) ==
    LET t == StripChars(s, IntWhitespace)
        v == DigitsValue(Unsigned(t), 0)
    IN  IF ~IsInt(s) THEN Raised(ValueError)
        ELSE Returned(IF Head(t) = 45 THEN 0 - v ELSE v)

\* one step of result.sort(key=lambda x: x[0]), which is stable
InsertPeriod(sorted, x) ==
    LET before == {i \in DOMAIN sorted : sorted[i][1] <= x[1]}
        k == IF before = {} THEN 0
             ELSE CHOOSE i \in before : \A j \in before : j <= i
    IN  SubSeq(sorted, 1, k) \o <<x>> \o SubSeq(sorted, k + 1, Len(sorted))

RECURSIVE SortPeriods(_)
SortPeriods(result) ==
    IF result = <<>> THEN <<>>
    ELSE InsertPeriod(SortPeriods(SubSeq(result, 1, Len(result) - 1)),
                      result[Len(result)])

\* _async_timetable_for_date on the response resp
async_timetable_for_date(resp) ==
    IF resp.kind = "raise" THEN Raised(resp.exc)
    ELSE IF resp.kind = "malformed" THEN Raised(IndexError)
    ELSE LET period == [i \in DOMAIN resp.rows |-> int(resp.rows[i].PERIO)]
             bad == {i \in DOMAIN period : period[i].raised # NoException}
             first == CHOOSE i \in bad : \A j \in bad : i <= j
         IN  IF bad # {} THEN Raised(period[first].raised)
             ELSE Returned(SortPeriods(
                    [i \in DOMAIN resp.rows |->
                        <<period[i].value, resp.rows[i].ITRT_CNTNT>>]))

\* ------------------------------------------------------------ GET /
\* variant: the except branch leaves the list of the previous day in place
TryExceptStale(out) ==
    IF out.raised = NoException THEN out
    ELSE IF ExceptException(out.raised)
         THEN Returned(IF week_meals = <<>> THEN <<>>
                       ELSE week_meals[Len(week_meals)].dishes)
    ELSE out

\* try: return asyncio.run(...)  except Exception: return []
\* applied to what the coroutine ended with
TryExcept(out) ==
    IF out.raised = NoException THEN out
    ELSE IF ExceptException(out.raised) THEN Returned(<<>>)
    ELSE out

\* variant: today's meal call is not awaited
AfterStartNoWait(p) ==
    CASE p = "today_meal" -> "today_tt"
      [] p = "today_tt"   -> "today_tt_wait"
      [] p = "wm_call"    -> "wm_wait"
      [] p = "wt_call"    -> "wt_wait"

\* asyncio.run(coro) blocks the handler at position p until coro is done
AfterStart(p) ==
    CASE p = "today_meal" -> "today_meal_wait"
      [] p = "today_tt"   -> "today_tt_wait"
      [] p = "wm_call"    -> "wm_wait"
      [] p = "wt_call"    -> "wt_wait"

\* where the handler goes on once the call started at p has been handled
AfterCall(p, n) ==
    CASE p = "today_meal" -> "today_tt"
      [] p = "today_tt"   -> "period"
      [] p = "wm_call"    -> IF n = 5 THEN "week_tt" ELSE "wm_call"
      [] p = "wt_call"    -> IF n = 5 THEN "render" ELSE "wt_call"

\* The handler starts an external call (api, date argument) at position p.
StartCall(p, api, d) ==
    /\ ipc = p
    /\ calls' = Append(calls, [api |-> api, ymd |-> strftime_ymd(d)])
    /\ inflight' = inflight \cup {Len(calls) + 1}
    /\ ipc' = AfterStart(p)

\* The coroutine of the call in flight ends, with a value or an exception.
CallCompletes ==
    /\ inflight # {}
    /\ outcome = None
    /\ \E c \in inflight :
        /\ inflight' = inflight \ {c}
        /\ \/ /\ calls[c].api = "meal"
              /\ \E resp \in MealResponses :
                    outcome' = Some(async_meal_for_ymd(resp))
           \/ /\ calls[c].api = "timetable"
              /\ \E resp \in TimetableResponses :
                    outcome' = Some(async_timetable_for_date(resp))
    /\ UNCHANGED <<now, ticks, storeVars, ipc, today, meal_list, timetable,
                   curr_next, week_days, week_meals, week_timetable, calls,
                   iexc>>

\* The try/except around the call at position p has run: the handler goes
\* on with the value, or the exception reaches the HTTP layer.
Resume(p, n) ==
    /\ ipc = AfterStart(p)
    /\ outcome # None
    /\ outcome' = None
    /\ IF TryExcept(outcome[1]).raised = NoException
       THEN ipc' = AfterCall(p, n) /\ iexc' = iexc
       ELSE ipc' = "http_error" /\ iexc' = TryExcept(outcome[1]).raised

\* index(): today = now_kst()
IndexStart ==
    /\ ipc = "idle"
    /\ today' = Some(now)
    /\ ipc' = "today_meal"
    /\ UNCHANGED <<now, ticks, storeVars, meal_list, timetable, curr_next,
                   week_days, week_meals, week_timetable, inflight, outcome,
                   calls, iexc>>

\* get_today_meal(): ymd = now_kst().strftime("%Y%m%d"); asyncio.run(...)
TodayMealCall ==
    /\ StartCall("today_meal", "meal", now.day)
    /\ UNCHANGED <<now, ticks, storeVars, today, meal_list, timetable,
                   curr_next, week_days, week_meals, week_timetable, outcome,
                   iexc>>

TodayMealReturn ==
    /\ Resume("today_meal", 0)
    /\ meal_list' = IF ipc' = "http_error" THEN meal_list
                    ELSE TryExcept(outcome[1]).value
    /\ UNCHANGED <<now, ticks, storeVars, today, timetable, curr_next,
                   week_days, week_meals, week_timetable, inflight, calls>>

\* get_today_timetable(): today = now_kst(); asyncio.run(...)
TodayTimetableCall ==
    /\ StartCall("today_tt", "timetable", now.day)
    /\ UNCHANGED <<now, ticks, storeVars, today, meal_list, timetable,
                   curr_next, week_days, week_meals, week_timetable, outcome,
                   iexc>>

TodayTimetableReturn ==
    /\ Resume("today_tt", 0)
    /\ timetable' = IF ipc' = "http_error" THEN timetable
                    ELSE TryExcept(outcome[1]).value
    /\ UNCHANGED <<now, ticks, storeVars, today, meal_list, curr_next,
                   week_days, week_meals, week_timetable, inflight, calls>>

\* curr, nextp = get_current_and_next_period()
CurrentPeriod ==
    /\ ipc = "period"
    /\ curr_next' = Some(get_current_and_next_period(now.tod))
    /\ ipc' = "week_meals"
    /\ UNCHANGED <<now, ticks, storeVars, today, meal_list, timetable,
                   week_days, week_meals, week_timetable, inflight, outcome,
                   calls, iexc>>

\* get_week_meals(): result = []; week_days = get_week_dates()
WeekMealsStart ==
    /\ ipc = "week_meals"
    /\ week_days' = get_week_dates(now)
    /\ week_meals' = <<>>
    /\ ipc' = "wm_call"
    /\ UNCHANGED <<now, ticks, storeVars, today, meal_list, timetable,
                   curr_next, week_timetable, inflight, outcome, calls, iexc>>

\* for d in week_days: dishes = asyncio.run(_async_meal_for_ymd(...))
WeekMealCall ==
    /\ StartCall("wm_call", "meal", week_days[Len(week_meals) + 1])
    /\ UNCHANGED <<now, ticks, storeVars, today, meal_list, timetable,
                   curr_next, week_days, week_meals, week_timetable, outcome,
                   iexc>>

\* except ...: dishes = []; result.append({...})
WeekMealReturn ==
    /\ Resume("wm_call", Len(week_meals) + 1)
    /\ week_meals' =
         IF ipc' = "http_error" THEN week_meals
         ELSE LET d == week_days[Len(week_meals) + 1]
              IN  Append(week_meals,
                         [date    |-> strftime_dashed(d),
                          weekday |-> weekday_kor[weekday(d) + 1],
                          dishes  |-> TryExcept(outcome[1]).value])
    /\ UNCHANGED <<now, ticks, storeVars, today, meal_list, timetable,
                   curr_next, week_days, week_timetable, inflight, calls>>

\* get_week_timetable(): result = []; week_days = get_week_dates()
WeekTimetableStart ==
    /\ ipc = "week_tt"
    /\ week_days' = get_week_dates(now)
    /\ week_timetable' = <<>>
    /\ ipc' = "wt_call"
    /\ UNCHANGED <<now, ticks, storeVars, today, meal_list, timetable,
                   curr_next, week_meals, inflight, outcome, calls, iexc>>

\* for d in week_days: rows = asyncio.run(_async_timetable_for_date(...))
WeekTimetableCall ==
    /\ StartCall("wt_call", "timetable", week_days[Len(week_timetable) + 1])
    /\ UNCHANGED <<now, ticks, storeVars, today, meal_list, timetable,
                   curr_next, week_days, week_meals, week_timetable, outcome,
                   iexc>>

\* except ...: rows = []; result.append({...})
WeekTimetableReturn ==
    /\ Resume("wt_call", Len(week_timetable) + 1)
    /\ week_timetable' =
         IF ipc' = "http_error" THEN week_timetable
         ELSE LET d == week_days[Len(week_timetable) + 1]
              IN  Append(week_timetable,
                         [date    |-> strftime_dashed(d),
                          weekday |-> weekday_kor[weekday(d) + 1],
                          rows    |-> TryExcept(outcome[1]).value])
    /\ UNCHANGED <<now, ticks, storeVars, today, meal_list, timetable,
                   curr_next, week_days, week_meals, inflight, calls>>

\* return render_template("index.html", ...)
Render ==
    /\ ipc = "render"
    /\ ipc' = "rendered"
    /\ UNCHANGED <<now, ticks, storeVars, today, meal_list, timetable,
                   curr_next, week_days, week_meals, week_timetable, inflight,
                   outcome, calls, iexc>>

\* One GET / request, started just before midnight on a day of the window.
InitIndex ==
    /\ now \in [day : FirstDay..(FirstDay + IndexDays - 1),
                 tod : {SecondsPerDay - 1}]
    /\ ticks = 0
    /\ StoreUnused
    /\ IndexIdle

NextIndex ==
    \/ Tick
    \/ IndexStart
    \/ TodayMealCall
    \/ TodayMealReturn
    \/ TodayTimetableCall
    \/ TodayTimetableReturn
    \/ CurrentPeriod
    \/ WeekMealsStart
    \/ WeekMealCall
    \/ WeekMealReturn
    \/ WeekTimetableStart
    \/ WeekTimetableCall
    \/ WeekTimetableReturn
    \/ CallCompletes
    \/ Render

SpecIndex == InitIndex /\ [][NextIndex]_vars

\* The handler stands at the period lookup, at any second of the day (both
\* fetches of today came back empty).
InitPeriod ==
    /\ now \in [day : {FirstDay}, tod : 0..(SecondsPerDay - 1)]
    /\ ticks = 0
    /\ StoreUnused
    /\ ipc = "period"
    /\ today = Some(now)
    /\ meal_list = <<>>
    /\ timetable = <<>>
    /\ curr_next = None
    /\ week_days = <<>>
    /\ week_meals = <<>>
    /\ week_timetable = <<>>
    /\ inflight = {}
    /\ outcome = None
    /\ calls = <<[api |-> "meal", ymd |-> strftime_ymd(now.day)],
                 [api |-> "timetable", ymd |-> strftime_ymd(now.day)]>>
    /\ iexc = NoException

NextPeriod == CurrentPeriod

SpecPeriod == InitPeriod /\ [][NextPeriod]_vars

\* The handler stands at get_week_meals(), on any day of the window.
InitWeek ==
    /\ now \in [day : FirstDay..(FirstDay + NumDays - 1), tod : {time(8, 45)}]
    /\ ticks = 0
    /\ StoreUnused
    /\ ipc = "week_meals"
    /\ today = Some(now)
    /\ meal_list = <<>>
    /\ timetable = <<>>
    /\ curr_next = Some(get_current_and_next_period(now.tod))
    /\ week_days = <<>>
    /\ week_meals = <<>>
    /\ week_timetable = <<>>
    /\ inflight = {}
    /\ outcome = None
    /\ calls = <<[api |-> "meal", ymd |-> strftime_ymd(now.day)],
                 [api |-> "timetable", ymd |-> strftime_ymd(now.day)]>>
    /\ iexc = NoException

NextWeek == WeekMealsStart

SpecWeek == InitWeek /\ [][NextWeek]_vars

\* ================================================================ claims

\* a <= b for byte strings compared as raw text: a is a prefix of b, or a has
\* the smaller byte at the first position where they differ
RawTextLeq(a, b) ==
    \E k \in 0..Len(a) :
        /\ k <= Len(b)
        /\ \A i \in 1..k : a[i] = b[i]
        /\ \/ k = Len(a)
           \/ k < Len(b) /\ a[k + 1] < b[k + 1]

\* NULL first, then raw text order
DueDateLeq(x, y) ==
    \/ x = None
    \/ x # None /\ y # None /\ RawTextLeq(x[1], y[1])

\* C1: get_assessments returns exactly one row per record inserted (none
\* lost, duplicated or invented), in non-decreasing order of the due_date
\* text compared as raw text.
C1_ListAllSortedByRawText ==
    LET rows == get_assessments
    IN  /\ Len(rows) = Len(supplied)
        /\ \A i \in DOMAIN table :
              Cardinality({j \in DOMAIN rows : rows[j] = table[i]}) = 1
        /\ \A j \in DOMAIN rows : rows[j] \in Range(table)
        /\ \A j, k \in DOMAIN rows :
              j < k => DueDateLeq(rows[j].due_date, rows[k].due_date)

\* a listing in which "10" precedes "9" although this run inserted it later
C1_Witness ==
    \E r \in Reqs :
        /\ pc[r] = "listed"
        /\ \E j, k \in DOMAIN listing[r] :
              /\ j < k
              /\ listing[r][j].due_date = Some(<<49, 48>>)
              /\ listing[r][k].due_date = Some(<<57>>)
              /\ listing[r][j].id > listing[r][k].id
              /\ listing[r][j].created_at = Some(isoformat(now))

Lacks(f) == f.subject = None \/ f.title = None \/ f.due_date = None

\* C2 (as stated): a POST /assess whose form lacks subject, title or due_date
\* is never rejected.
C2_MissingFieldNeverRejected ==
    \A r \in Reqs : Lacks(form[r]) => exc[r] # "IntegrityError"

SameFields(row, f) ==
    /\ row.subject = f.subject
    /\ row.title = f.title
    /\ row.due_date = f.due_date
    /\ row.detail = f.detail

\* C2 (amended): a form that lacks due_date or detail but carries subject and
\* title is stored with the field absent, the store grows by one row and the
\* request ends with the redirect; a form that lacks subject or title is
\* rejected by the NOT NULL constraint, stores nothing and fails the request.
\* The only other failure is the write lock being held by another request.
C2_State ==
    /\ \A i \in DOMAIN table : table[i].subject # None /\ table[i].title # None
    /\ \A r \in Reqs :
        /\ pc[r] = "redirect" =>
              /\ form[r].subject # None /\ form[r].title # None
              /\ \E i \in DOMAIN table : SameFields(table[i], form[r])
        /\ (pc[r] = "failed" /\ exc[r] = "IntegrityError") =>
              (form[r].subject = None \/ form[r].title = None)
        /\ pc[r] = "failed" => exc[r] \in {"IntegrityError", "OperationalError"}

C2_Step ==
    \A r \in Reqs :
        /\ (pc[r] = "execute" /\ pc'[r] # "execute") =>
              IF lock \notin {0, r}
              THEN pc'[r] = "failed" /\ exc'[r] = "OperationalError"
                   /\ table' = table
              ELSE IF form[r].subject = None \/ form[r].title = None
              THEN pc'[r] = "failed" /\ exc'[r] = "IntegrityError"
                   /\ table' = table
              ELSE pc'[r] = "commit" /\ table' = table
        /\ (pc[r] = "commit" /\ pc'[r] # "commit") =>
              /\ pc'[r] = "redirect"
              /\ Len(table') = Len(table) + 1
              /\ SubSeq(table', 1, Len(table)) = table
              /\ SameFields(table'[Len(table')], form[r])

C2_RejectsOnlySubjectOrTitle == []C2_State /\ [][C2_Step]_vars

\* a row without due_date is stored while a request is rejected
C2_Witness ==
    /\ \E i \in DOMAIN table : table[i].due_date = None
    /\ \E r \in Reqs : pc[r] = "failed" /\ exc[r] = "IntegrityError"
                       /\ form[r].subject = None /\ form[r].due_date # None

\* the period table read declaratively
PeriodNumbers == {PERIOD_TIMES[i][1] : i \in DOMAIN PERIOD_TIMES}
StartOf(p) == (CHOOSE i \in DOMAIN PERIOD_TIMES : PERIOD_TIMES[i][1] = p)
EntryOf(p) == PERIOD_TIMES[StartOf(p)]
Within(t, p) == EntryOf(p)[2] <= t /\ t <= EntryOf(p)[3]

\* C3: at time t the lookup gives (p, the following period or None) when t is
\* in the inclusive window of p; (None, p) when t is in no window and p is the
\* first period starting later than t; (None, None) after the last period.
\* 08:45 gives (1, 2), 09:35 (None, 2), 08:00 (None, 1), 17:00 (None, None).
C3_PeriodLookup ==
    curr_next # None =>
        LET t == now.tod
            res == curr_next[1]
            later == {p \in PeriodNumbers : t < EntryOf(p)[2]}
        IN  /\ \A p \in PeriodNumbers :
                  Within(t, p) =>
                      res = <<Some(p), IF p + 1 \in PeriodNumbers
                                       THEN Some(p + 1) ELSE None>>
            /\ ((\A p \in PeriodNumbers : ~Within(t, p)) /\ later # {}) =>
                  res = <<None,
                          Some(CHOOSE p \in later : \A q \in later : p <= q)>>
            /\ ((\A p \in PeriodNumbers : ~Within(t, p)) /\ later = {}) =>
                  res = <<None, None>>
            /\ t = time(8, 45) => res = <<Some(1), Some(2)>>
            /\ t = time(9, 35) => res = <<None, Some(2)>>
            /\ t = time(8, 0)  => res = <<None, Some(1)>>
            /\ t = time(17, 0) => res = <<None, None>>

\* the lookup has run at the last second of period 1
C3_Witness ==
    /\ now.tod = time(9, 30)
    /\ curr_next = Some(<<Some(1), Some(2)>>)

\* C6: every record inserted by add_assessment(subject, title, due_date,
\* detail) is found in any later get_assessments with the four fields as
\* supplied and a populated, non-empty created_at.
C6_RoundTrip ==
    LET rows == get_assessments
    IN  /\ Len(table) = Len(supplied)
        /\ \A k \in DOMAIN supplied :
              \E j \in DOMAIN rows :
                  /\ rows[j].id = table[k].id
                  /\ SameFields(rows[j], supplied[k])
                  /\ rows[j].created_at # None
                  /\ rows[j].created_at[1] # <<>>

\* a listing taken after two adds of this run, one of them without detail
\* and due_date
C6_Witness ==
    \E r \in Reqs :
        /\ pc[r] = "listed"
        /\ Len(listing[r]) = 2
        /\ Len(supplied) = 2
        /\ supplied[1].detail = None /\ supplied[1].due_date = None
        /\ supplied[2].detail # None /\ supplied[2].due_date # None
        /\ \A j \in 1..2 : listing[r][j].created_at = Some(isoformat(now))

\* C7: record ids are pairwise distinct and assigned monotonically (a later
\* insert has a strictly greater id than every earlier one), whatever the
\* interleaving of concurrent requests, and no committed insert is lost.
C7_IdsUniqueMonotonic ==
    /\ \A i, j \in DOMAIN table : i < j => table[i].id < table[j].id
    /\ \A i \in DOMAIN table : table[i].id <= seq
    /\ \A r \in Reqs :
          pc[r] = "redirect" =>
              \E i \in DOMAIN table : SameFields(table[i], form[r])
    /\ \A r \in Reqs :
          pending[r] # None =>
              \A i \in DOMAIN table : table[i].id < pending[r][1].id

\* two requests overlap: one has committed and not yet answered while the
\* other has inserted the second row
C7_Witness ==
    \E r1, r2 \in Reqs :
        /\ r1 # r2
        /\ pc[r1] = "redirect"
        /\ pc[r2] = "commit"
        /\ pending[r2][1].id = 2

\* Monday, counted from ordinal 1 (1 January of year 1, a Monday)
IsMonday(d) == d % 7 = 1

\* C9: whatever day of the week now falls on, get_week_dates returns exactly
\* 5 consecutive dates, the first being the Monday of the week of today.
C9_WeekDates ==
    ipc = "wm_call" =>
        /\ Len(week_days) = 5
        /\ \A i \in 1..4 : week_days[i + 1] = week_days[i] + 1
        /\ IsMonday(week_days[1])
        /\ week_days[1] <= now.day /\ now.day <= week_days[1] + 6

\* get_week_dates has run on a Sunday
C9_Witness ==
    /\ ipc = "wm_call"
    /\ now.day % 7 = 0
    /\ week_days[1] = now.day - 6

\* <<year, month, day>> a strictly before <<year, month, day>> b
YmdLess(a, b) ==
    \/ a[1] < b[1]
    \/ a[1] = b[1] /\ a[2] < b[2]
    \/ a[1] = b[1] /\ a[2] = b[2] /\ a[3] < b[3]

\* the Mondays a request of the model can see
Mondays ==
    {d \in (FirstDay - 6)..(FirstDay + IndexDays + MaxTicks) : IsMonday(d)}

\* the 5 entries carry the dates and labels of Monday to Friday of one week
MondayToFriday(entries) ==
    /\ Len(entries) = 5
    /\ \E m \in Mondays :
          \A i \in 1..5 :
              /\ entries[i].date = ord2ymd(m + i - 1)
              /\ entries[i].weekday = weekday_kor[i]

Failed(out) == out.raised # NoException

\* C4: whatever subset of the 5 weekdays has a failing (or empty) meal or
\* timetable fetch, both week lists end with exactly 5 entries in date order,
\* the entry of a failing day carries an empty list and the entry of any other
\* day carries exactly what its own fetch returned; entries already built are
\* not touched.
C4_State ==
    /\ ipc \in {"week_tt", "wt_call", "wt_wait", "render", "rendered"} =>
          /\ Len(week_meals) = 5
          /\ \A i \in 1..4 : YmdLess(week_meals[i].date, week_meals[i + 1].date)
    /\ ipc \in {"render", "rendered"} =>
          /\ Len(week_timetable) = 5
          /\ \A i \in 1..4 :
                YmdLess(week_timetable[i].date, week_timetable[i + 1].date)

C4_Step ==
    /\ (ipc = "wm_wait" /\ ipc' # "wm_wait") =>
          /\ Len(week_meals') = Len(week_meals) + 1
          /\ SubSeq(week_meals', 1, Len(week_meals)) = week_meals
          /\ week_meals'[Len(week_meals')].date =
                ord2ymd(week_days[Len(week_meals')])
          /\ week_meals'[Len(week_meals')].dishes =
                IF Failed(outcome[1]) THEN <<>> ELSE outcome[1].value
          /\ week_timetable' = week_timetable
    /\ (ipc = "wt_wait" /\ ipc' # "wt_wait") =>
          /\ Len(week_timetable') = Len(week_timetable) + 1
          /\ SubSeq(week_timetable', 1, Len(week_timetable)) = week_timetable
          /\ week_timetable'[Len(week_timetable')].date =
                ord2ymd(week_days[Len(week_timetable')])
          /\ week_timetable'[Len(week_timetable')].rows =
                IF Failed(outcome[1]) THEN <<>> ELSE outcome[1].value
          /\ week_meals' = week_meals

C4_WeekDaysDegradeIndependently == []C4_State /\ [][C4_Step]_vars

\* the week is complete, with empty and non-empty days mixed in both lists
C4_Witness ==
    /\ ipc = "rendered"
    /\ week_meals[2].dishes = <<>> /\ week_meals[3].dishes # <<>>
    /\ week_meals[5].dishes = <<>>
    /\ week_timetable[1].rows = <<>> /\ week_timetable[2].rows # <<>>
    /\ week_timetable[3].rows = <<>>

\* a step of the handler itself
HandlerStep ==
    \/ IndexStart \/ TodayMealCall \/ TodayMealReturn \/ TodayTimetableCall
    \/ TodayTimetableReturn \/ CurrentPeriod \/ WeekMealsStart \/ WeekMealCall
    \/ WeekMealReturn \/ WeekTimetableStart \/ WeekTimetableCall
    \/ WeekTimetableReturn \/ Render

\* C5: no failure of a meal or timetable fetch during GET / reaches the HTTP
\* layer: the handler never stops before rendering, and a fetch that failed
\* leaves an empty list in the view model.
C5_State ==
    /\ iexc = NoException
    /\ ipc # "http_error"
    /\ (ipc # "rendered" /\ inflight = {}) => ENABLED HandlerStep
    /\ inflight # {} => ENABLED CallCompletes

C5_Step ==
    /\ (ipc = "today_meal_wait" /\ ipc' # ipc /\ Failed(outcome[1])) =>
          meal_list' = <<>> /\ ipc' = "today_tt"
    /\ (ipc = "today_tt_wait" /\ ipc' # ipc /\ Failed(outcome[1])) =>
          timetable' = <<>> /\ ipc' = "period"
    /\ (ipc = "wm_wait" /\ ipc' # ipc /\ Failed(outcome[1])) =>
          /\ week_meals'[Len(week_meals')].dishes = <<>>
          /\ ipc' \in {"wm_call", "week_tt"}
    /\ (ipc = "wt_wait" /\ ipc' # ipc /\ Failed(outcome[1])) =>
          /\ week_timetable'[Len(week_timetable')].rows = <<>>
          /\ ipc' \in {"wt_call", "render"}

C5_FetchFailuresNeverRaised == []C5_State /\ [][C5_Step]_vars

\* the page is rendered with every list empty
C5_Witness ==
    /\ ipc = "rendered"
    /\ meal_list = <<>> /\ timetable = <<>>
    /\ \A i \in 1..5 : week_meals[i].dishes = <<>>
    /\ \A i \in 1..5 : week_timetable[i].rows = <<>>

\* C8: in the view model of every GET /, week_meals and week_timetable have 5
\* entries each, entry i of both carries the same date and weekday label, and
\* the dates are Monday to Friday of one week, whatever the clock reads were.
C8_WeekListsParallel ==
    ipc = "rendered" =>
        /\ MondayToFriday(week_meals)
        /\ MondayToFriday(week_timetable)
        /\ \A i \in 1..5 :
              /\ week_meals[i].date = week_timetable[i].date
              /\ week_meals[i].weekday = week_timetable[i].weekday

\* the api of the n-th call of a request
ExpectedApi(n) ==
    IF n = 1 \/ n \in 3..7 THEN "meal" ELSE "timetable"

\* C10: within one GET / at most one external call is in flight, a call is
\* over before the next starts, the week issues its 5 meal calls Monday to
\* Friday and then its 5 timetable calls Monday to Friday, and no call is
\* skipped because an earlier one failed.
C10_CallsSequential ==
    /\ Cardinality(inflight) <= 1
    /\ inflight # {} => inflight = {Len(calls)} /\ outcome = None
    /\ Len(calls) <= 12
    /\ \A n \in DOMAIN calls : calls[n].api = ExpectedApi(n)
    /\ Len(calls) > 2 =>
          \E m \in Mondays :
              \A n \in 3..7 : n <= Len(calls) =>
                  calls[n].ymd = strftime_ymd(m + n - 3)
    /\ Len(calls) > 7 =>
          \E m \in Mondays :
              \A n \in 8..12 : n <= Len(calls) =>
                  calls[n].ymd = strftime_ymd(m + n - 8)
    /\ ipc \in {"render", "rendered"} => Len(calls) = 12
    /\ ipc = "week_tt" => Len(calls) = 7

\* all 12 calls were made although the first of each group came back empty
C10_Witness ==
    /\ ipc = "rendered"
    /\ Len(calls) = 12
    /\ meal_list = <<>> /\ timetable = <<>>
    /\ week_meals[1].dishes = <<>> /\ week_meals[5].dishes # <<>>
    /\ week_timetable[1].rows = <<>> /\ week_timetable[5].rows # <<>>

====
